---- MODULE Spec2Model ----
\* State-machine model of the practice hook (src/app/hooks/usePractice.ts) as it
\* is driven by the practice screen (src/app/(tabs)/practice.tsx) and the
\* practice component (src/app/components/practice/Practice.tsx), and of
\* the profile hook (src/app/hooks/useProfile.ts).
\*
\* A handler runs synchronously up to its first await; the part after the
\* await is a separate step that may interleave with other handlers.  State
\* written by a step is rendered before the next step, so a handler invoked
\* from the screen reads the committed state, while the continuation of an
\* async handler keeps the values its closure captured when it was invoked.
EXTENDS Integers, Sequences, FiniteSets, TLC

\* ---------------------------------------------------------------- bounds
MaxRequests == 4        \* foreground requests the hook sends in one behaviour
MaxQueueRequests == 6   \* the same, while the server answers every request
MaxProfileRequests == 4 \* requests the profile hook sends in one behaviour
MaxFeedbackRequests == 4 \* foreground requests, the feedback questions among them

\* null for a cell that holds an object, a number, a string
Null == [null |-> TRUE]
NullNumber == -1
NullString == "null"
Whitespace == {" "}

\* The difficulties the server hands out; 0 stands for a missing or zero one.
Difficulties == {0, 1, 2}

\* The texts the user types: nothing, blanks only, an answer, a padded answer.
Texts == {<<>>, <<" ">>, <<"a">>}

\* ---------------------------------------------------------------- state
VARIABLES
  user,              \* useAuth().user is non-null
  hook,              \* the useState / useRef cells of usePractice
  genInFlight,       \* foreground /api/practice/generate requests awaiting a response
  batchInFlight,     \* background /api/practice/generate requests awaiting a response
  submitInFlight,    \* /api/practice/submit requests awaiting a response
  adjustInFlight,    \* /api/practice/adjust-difficulty requests, one closure each
  askInFlight,       \* /api/practice/question requests awaiting a response
  op,                \* the step taken last: the handler part that ran and how it ended
  requests,          \* number of foreground requests sent so far
  adjustEpoch,       \* number of adjustments the server has applied
  lastSubmit,        \* outcome of the most recently completed submit request
  profileState,      \* the useState cells of useProfile
  fetchInFlight,     \* GET /api/user/profile requests awaiting a response
  updateInFlight,    \* PUT /api/auth/profile requests, by the language they carry
  profileRequests,   \* number of requests the profile hook has sent so far
  profileOp          \* the step of the profile hook taken last, and how it ended

vars == <<user, hook, genInFlight, batchInFlight, submitInFlight, adjustInFlight,
          askInFlight, op, requests, adjustEpoch, lastSubmit,
          profileState, fetchInFlight, updateInFlight, profileRequests, profileOp>>

\* What usePractice owns, and what useProfile owns.
practiceVars == <<hook, genInFlight, batchInFlight, submitInFlight, adjustInFlight,
                  askInFlight, op, requests, adjustEpoch, lastSubmit>>
profileVars == <<profileState, fetchInFlight, updateInFlight, profileRequests,
                 profileOp>>

\* Two of LANGUAGE_OPTIONS' codes.
Languages == {"English", "Dutch"}

\* What GET /api/user/profile returns as data; "" is an unset mother language.
ServerProfiles ==
  [user : [name : {"Ann"}, motherLanguage : Languages \cup {""}],
   progress : [completedPractices : {0, 1}]]

\* useState initial values, useProfile.ts:31-34
InitialProfileState ==
  [loading |-> TRUE, profile |-> Null, error |-> NullString,
   selectedLanguage |-> "English"]

profile == profileState.profile
selectedLanguage == profileState.selectedLanguage
error == profileState.error

\* The hook's state cells under the names the source gives them.
loading == hook.loading
generatingBatch == hook.generatingBatch
currentPractice == hook.currentPractice
userAnswer == hook.userAnswer
feedback == hook.feedback
errorMessage == hook.errorMessage
questionQueue == hook.questionQueue
adjusting == hook.adjusting
difficultyTrend == hook.difficultyTrend
previousDifficultyRef == hook.previousDifficultyRef
feedbackQuestion == hook.feedbackQuestion
feedbackAnswer == hook.feedbackAnswer
askingQuestion == hook.askingQuestion

\* useState initial values, usePractice.ts:11-24
InitialHook ==
  [ loading |-> FALSE,
    generatingBatch |-> FALSE,
    currentPractice |-> Null,
    userAnswer |-> <<>>,
    feedback |-> Null,
    errorMessage |-> Null,
    questionQueue |-> <<>>,
    adjusting |-> FALSE,
    difficultyTrend |-> "stable",
    previousDifficultyRef |-> NullNumber,
    feedbackQuestion |-> <<>>,
    feedbackAnswer |-> NullString,
    askingQuestion |-> FALSE ]

\* ---------------------------------------------------------------- helpers

\* A practice item as the server sends it.  difficulty 0 stands for a missing
\* or zero difficulty; epoch is the number of adjustments the server had
\* applied when it produced the item.
PracticeItem(d, e) == [difficulty |-> d, epoch |-> e]

\* String.prototype.trim on a string of Chars.
RECURSIVE TrimStart(_)
TrimStart(s) ==
  IF s = <<>> THEN <<>>
  ELSE IF Head(s) \in Whitespace THEN TrimStart(Tail(s)) ELSE s

RECURSIVE TrimEnd(_)
TrimEnd(s) ==
  IF s = <<>> THEN <<>>
  ELSE IF s[Len(s)] \in Whitespace THEN TrimEnd(SubSeq(s, 1, Len(s) - 1)) ELSE s

trim(s) == TrimEnd(TrimStart(s))

\* Boolean(v) for the values a JSON field can take.
Truthy(v) == v \in {"true", "1"}

\* The mismatch that lets a broken trend comparison show.
TrendOfMutant(d, p) ==
  IF d > p THEN "increasing"
  ELSE IF d < p THEN "stable"
  ELSE "decreasing"

\* The three-way comparison of the difficulty-trend effect.
TrendOf(d, p) ==
  IF d > p THEN "increasing"
  ELSE IF d < p THEN "decreasing"
  ELSE "stable"

\* The effect on [currentPractice]: runs after every render in which
\* currentPractice is a new object.
DifficultyTrendEffect(s) ==
  IF s.currentPractice # Null /\ s.currentPractice.difficulty # 0
  THEN [s EXCEPT
          !.difficultyTrend =
             IF s.previousDifficultyRef # NullNumber
             THEN TrendOf(s.currentPractice.difficulty, s.previousDifficultyRef)
             ELSE @,
          !.previousDifficultyRef = s.currentPractice.difficulty]
  ELSE s

\* setCurrentPractice(item) followed by the render it causes.
SetCurrentPractice(s, item) ==
  DifficultyTrendEffect([s EXCEPT !.currentPractice = item])

\* A clearing that leaves the feedback question in its box.
ClearFeedbackStateMutant(s) ==
  [s EXCEPT !.feedback = Null,
            !.userAnswer = <<>>,
            !.feedbackAnswer = NullString,
            !.askingQuestion = FALSE]

\* "Clear all feedback-related state", usePractice.ts:36-41 and 327-332
ClearFeedbackState(s) ==
  [s EXCEPT !.feedback = Null,
            !.userAnswer = <<>>,
            !.feedbackQuestion = <<>>,
            !.feedbackAnswer = NullString,
            !.askingQuestion = FALSE]

\* The values a handler's closure captured from the render it belongs to.
Closure(u, s) ==
  [user |-> u, questionQueue |-> s.questionQueue, generatingBatch |-> s.generatingBatch]

\* ---------------------------------------------------------------- handlers
\* Each handler's synchronous part is a function from the hook state (and the
\* closure the handler belongs to) to the hook state it leaves, together with
\* the requests it sent.

\* generatePracticeBatch that forgets to raise the generatingBatch flag.
GeneratePracticeBatchMutant(s, c) ==
  IF ~c.user \/ c.generatingBatch
  THEN [s |-> s, batch |-> FALSE]
  ELSE [s |-> s, batch |-> TRUE]

\* generatePracticeBatch up to its first await.
GeneratePracticeBatch(s, c) ==
  IF ~c.user \/ c.generatingBatch
  THEN [s |-> s, batch |-> FALSE]
  ELSE [s |-> [s EXCEPT !.generatingBatch = TRUE], batch |-> TRUE]

\* A prefetch threshold that is off by one.
RunningLowMutant(remainingQuestions, gb) ==
  Len(remainingQuestions) <= 2 /\ ~gb

\* "If we're running low on queued questions, generate more in the background"
RunningLow(remainingQuestions, gb) ==
  Len(remainingQuestions) < 2 /\ ~gb

\* A dequeue that serves the last element instead of the first.
DequeueMutant(q) ==
  [nextQuestion |-> q[Len(q)], remainingQuestions |-> SubSeq(q, 1, Len(q) - 1)]

\* questionQueue[0] and questionQueue.slice(1)
Dequeue(q) ==
  [nextQuestion |-> Head(q), remainingQuestions |-> Tail(q)]

\* generatePractice(forceNew) up to its first await, or to its return when it
\* does not await.  path tells which branch ran; fetch and batch tell which
\* requests were sent.
GeneratePractice(s, c, forceNew) ==
  LET s1 == [s EXCEPT !.errorMessage = Null]
  IN
  IF ~c.user
  THEN [s |-> [s1 EXCEPT !.loading = FALSE],
        path |-> "noUser", fetch |-> FALSE, batch |-> FALSE]
  ELSE
    LET s2 == ClearFeedbackState(s1)
    IN
    IF ~forceNew /\ Len(c.questionQueue) > 0
    THEN
      LET dq == Dequeue(c.questionQueue)
          s3 == SetCurrentPractice([s2 EXCEPT !.questionQueue = dq.remainingQuestions],
                                   dq.nextQuestion)
          b  == IF RunningLow(dq.remainingQuestions, c.generatingBatch)
                THEN GeneratePracticeBatch(s3, c)
                ELSE [s |-> s3, batch |-> FALSE]
      IN [s |-> [b.s EXCEPT !.loading = FALSE],
          path |-> "queue", fetch |-> FALSE, batch |-> b.batch]
    ELSE
      [s |-> [s2 EXCEPT !.loading = TRUE],
       path |-> "server", fetch |-> TRUE, batch |-> FALSE]

\* An error message as the pieces the template literal joins.
ErrorMessage(prefix, errorMsg) == [prefix |-> prefix, errorMsg |-> errorMsg]

\* error instanceof Error ? error.message : 'Unknown error'
ErrorMsgOf(thrown) ==
  IF thrown = "nonError" THEN "Unknown error" ELSE thrown

\* The foreground requests a call of generatePractice sent.
Sent(r) == IF r.fetch THEN 1 ELSE 0

\* A synchronous call of generatePractice from state s with closure c: the
\* hook state, the request counters and the serving record it leaves.
CallGeneratePractice(s, c, forceNew) ==
  LET r == GeneratePractice(s, c, forceNew)
  IN  /\ hook' = r.s
      /\ genInFlight' = genInFlight + (IF r.fetch THEN 1 ELSE 0)
      /\ batchInFlight' = batchInFlight + (IF r.batch THEN 1 ELSE 0)
      /\ requests' = requests + Sent(r)
      /\ op' = (IF r.batch THEN "queue.prefetch" ELSE r.path)

\* ---------------------------------------------------------------- screen
\* What the screen lets the user reach (practice.tsx:119-130, 179-210;
\* Practice.tsx:45-61, 93-114).
AdjusterVisible == currentPractice # Null
AnswerInputVisible == currentPractice # Null /\ ~loading /\ feedback = Null
FeedbackDisplayVisible == currentPractice # Null /\ ~loading /\ feedback # Null

\* ---------------------------------------------------------------- init
Init ==
  /\ user = FALSE
  /\ hook = InitialHook
  /\ genInFlight = 0
  /\ batchInFlight = 0
  /\ submitInFlight = 0
  /\ adjustInFlight = [d \in {"up", "down"} |-> 0]
  /\ askInFlight = 0
  /\ op = "init"
  /\ requests = 0
  /\ adjustEpoch = 0
  /\ lastSubmit = "none"
  /\ profileState = InitialProfileState
  /\ fetchInFlight = 0
  /\ updateInFlight = [language \in Languages |-> 0]
  /\ profileRequests = 0
  /\ profileOp = "init"

\* ---------------------------------------------------------------- actions

\* The auth context delivers a user; the effect on [user] calls generatePractice(true).
Login ==
  /\ ~user
  /\ user' = TRUE
  /\ CallGeneratePractice(hook, Closure(TRUE, hook), TRUE)
  /\ UNCHANGED <<submitInFlight, adjustInFlight, askInFlight, adjustEpoch, lastSubmit>>

\* The auth context drops the user; the effect on [user] does nothing.
Logout ==
  /\ user
  /\ user' = FALSE
  /\ op' = "other"
  /\ UNCHANGED <<hook, genInFlight, batchInFlight, submitInFlight, adjustInFlight,
                 askInFlight, requests, adjustEpoch, lastSubmit>>

\* Practice.tsx: useEffect(() => { if (!currentPractice && !loading) generatePractice() })
InitialLoad ==
  /\ currentPractice = Null /\ ~loading
  /\ CallGeneratePractice(hook, Closure(user, hook), FALSE)
  /\ UNCHANGED <<user, submitInFlight, adjustInFlight, askInFlight, adjustEpoch,
                 lastSubmit>>

\* Practice.tsx: <Button title="Try Again" onPress={() => generatePractice(true)} />
TryAgain ==
  /\ errorMessage # Null
  /\ CallGeneratePractice(hook, Closure(user, hook), TRUE)
  /\ UNCHANGED <<user, submitInFlight, adjustInFlight, askInFlight, adjustEpoch,
                 lastSubmit>>

\* handleNextPractice, pressed in the feedback display.
HandleNextPractice ==
  /\ FeedbackDisplayVisible
  /\ CallGeneratePractice(ClearFeedbackState(hook), Closure(user, hook), FALSE)
  /\ UNCHANGED <<user, submitInFlight, adjustInFlight, askInFlight, adjustEpoch,
                 lastSubmit>>

\* A practice built without the fallback for a missing difficulty.
PracticeOfMutant(data) == data

\* The "safe copy of the data with fallbacks": difficulty: data.difficulty || 1
PracticeOf(data) ==
  [data EXCEPT !.difficulty = IF @ = 0 THEN 1 ELSE @]

\* What a request to /api/practice/generate can come back with.
GenerateOutcomes ==
  {"nonError", "noSuccess", "noData", "ok"}


\* A failed generation that also drops the question on screen.
GenerateFailedMutant(s, errorMsg) ==
  [s EXCEPT !.errorMessage = ErrorMessage("Failed to generate practice: ", errorMsg),
            !.currentPractice = Null,
            !.loading = FALSE]

\* catch and finally of generatePractice
GenerateFailed(s, errorMsg) ==
  [s EXCEPT !.errorMessage = ErrorMessage("Failed to generate practice: ", errorMsg),
            !.loading = FALSE]

\* The continuation of generatePractice after its awaits.
GenerateDone ==
  /\ genInFlight > 0
  /\ genInFlight' = genInFlight - 1
  /\ \E outcome \in GenerateOutcomes, d \in Difficulties :
       IF outcome = "ok"
       THEN /\ hook' = [SetCurrentPractice(hook, PracticeOf(PracticeItem(d, adjustEpoch)))
                          EXCEPT !.loading = FALSE]
            /\ op' = "generatePractice.ok"
       ELSE /\ d = 0
            /\ hook' = GenerateFailed(hook,
                          IF outcome \in {"noSuccess", "noData"}
                          THEN "Invalid practice data received"
                          ELSE ErrorMsgOf(outcome))
            /\ op' = "generatePractice.failed"
  /\ UNCHANGED <<user, batchInFlight, submitInFlight, adjustInFlight, askInFlight,
                 requests, adjustEpoch, lastSubmit>>

\* A batch completion that also takes the foreground spinner down.
BatchFinishedMutant(s) == [s EXCEPT !.generatingBatch = FALSE, !.loading = FALSE]

\* finally of generatePracticeBatch; its try and catch change nothing.
BatchFinished(s) == [s EXCEPT !.generatingBatch = FALSE]

\* The continuation of generatePracticeBatch after its awaits.
BatchDone ==
  /\ batchInFlight > 0
  /\ batchInFlight' = batchInFlight - 1
  /\ \E outcome \in GenerateOutcomes :
       /\ hook' = BatchFinished(hook)
       /\ op' = "generatePracticeBatch.done"
  /\ UNCHANGED <<user, genInFlight, submitInFlight, adjustInFlight, askInFlight,
                 requests, adjustEpoch, lastSubmit>>

\* AnswerInput's onChangeAnswer={setUserAnswer}
SetUserAnswer ==
  /\ AnswerInputVisible
  /\ \E text \in Texts :
       /\ text # userAnswer
       /\ hook' = [hook EXCEPT !.userAnswer = text]
  /\ op' = "other"
  /\ UNCHANGED <<user, genInFlight, batchInFlight, submitInFlight, adjustInFlight,
                 askInFlight, requests, adjustEpoch, lastSubmit>>

\* A validation that lets a whitespace-only answer through.
AnswerMissingMutant(text) == text = <<>>

\* !userAnswer || !userAnswer.trim()
AnswerMissing(text) == text = <<>> \/ trim(text) = <<>>

\* submitAnswer up to its first await, or to its return when it rejects.
SubmitAnswer ==
  /\ AnswerInputVisible
  /\ LET s1 == [hook EXCEPT !.errorMessage = Null]
     IN  IF currentPractice = Null \/ AnswerMissing(userAnswer)
         THEN /\ hook' = [s1 EXCEPT !.loading = FALSE]
              /\ op' = "submitAnswer.rejected"
              /\ UNCHANGED <<submitInFlight, requests>>
         ELSE /\ hook' = [s1 EXCEPT !.loading = TRUE]
              /\ op' = "other"
              /\ submitInFlight' = submitInFlight + 1
              /\ requests' = requests + 1
  /\ UNCHANGED <<user, genInFlight, batchInFlight, adjustInFlight, askInFlight,
                 adjustEpoch, lastSubmit>>

\* What a request to /api/practice/submit can come back with: a thrown error,
\* or a response with or without success, data, data.nextPractice and
\* data.evaluation.  nextDifficulty -1 stands for a response without
\* nextPractice.
Evaluations ==
  { Null,
    [isCorrect |-> "true", feedback |-> "Goed zo"],
    [isCorrect |-> "1", feedback |-> "Goed zo"],
    [isCorrect |-> "false", feedback |-> "undefined"],
    [isCorrect |-> "undefined", feedback |-> "undefined"] }

SubmitResponses ==
  [success : {TRUE}, data : {TRUE}, nextDifficulty : {-1} \cup Difficulties,
   evaluation : Evaluations]
  \cup
  [success : BOOLEAN, data : BOOLEAN, nextDifficulty : {1},
   evaluation : {[isCorrect |-> "true", feedback |-> "Goed zo"]}]

SubmitThrows == {"Network Error"}

\* response.data?.success && response.data?.data
Usable(response) == response.success /\ response.data

\* The server's verdict carried by a response, as the response states it.
Graded(response) ==
  /\ Usable(response)
  /\ response.evaluation # Null
  /\ Truthy(response.evaluation.isCorrect)

\* How a response reads.
Verdict(response) == IF Graded(response) THEN "correct" ELSE "incorrect"

\* A feedback record that starts out correct.
FeedbackOfMutant(response) ==
  IF Usable(response) /\ response.evaluation # Null
  THEN [isCorrect |-> Truthy(response.evaluation.isCorrect),
        feedback |-> IF response.evaluation.feedback # "undefined"
                     THEN response.evaluation.feedback ELSE ""]
  ELSE [isCorrect |-> TRUE, feedback |-> ""]

\* let feedbackText = ''; let isCorrect = false; ... setFeedback({isCorrect, feedback})
FeedbackOf(response) ==
  IF Usable(response) /\ response.evaluation # Null
  THEN [isCorrect |-> Truthy(response.evaluation.isCorrect),
        feedback |-> IF response.evaluation.feedback # "undefined"
                     THEN response.evaluation.feedback ELSE ""]
  ELSE [isCorrect |-> FALSE, feedback |-> ""]

\* An enqueue that puts the new question in front.
EnqueueMutant(prevQueue, item) == <<item>> \o prevQueue

\* setQuestionQueue(prevQueue => [...prevQueue, nextPractice])
Enqueue(prevQueue, item) == Append(prevQueue, item)

\* A submit failure that also wipes the feedback on screen.
SubmitFailedMutant(s, errorMsg) ==
  [s EXCEPT !.errorMessage = ErrorMessage("Failed to submit answer: ", errorMsg),
            !.feedback = Null,
            !.loading = FALSE]

\* catch and finally of submitAnswer
SubmitFailed(s, errorMsg) ==
  [s EXCEPT !.errorMessage = ErrorMessage("Failed to submit answer: ", errorMsg),
            !.loading = FALSE]

\* The continuation of submitAnswer after its awaits: the request threw.
SubmitThrew ==
  /\ submitInFlight > 0
  /\ submitInFlight' = submitInFlight - 1
  /\ \E thrown \in SubmitThrows :
       hook' = SubmitFailed(hook, ErrorMsgOf(thrown))
  /\ lastSubmit' = "threw"
  /\ op' = "submitAnswer.failed"
  /\ UNCHANGED <<user, genInFlight, batchInFlight, adjustInFlight, askInFlight,
                 requests, adjustEpoch>>

\* The continuation of submitAnswer after its awaits: a response came back.
SubmitDone ==
  /\ submitInFlight > 0
  /\ submitInFlight' = submitInFlight - 1
  /\ \E response \in SubmitResponses :
       LET queued == Usable(response) /\ response.nextDifficulty >= 0
           item   == PracticeItem(response.nextDifficulty, adjustEpoch)
       IN  /\ hook' = [hook EXCEPT
                         !.questionQueue = IF queued THEN Enqueue(@, item) ELSE @,
                         !.feedback = FeedbackOf(response),
                         !.loading = FALSE]
           /\ lastSubmit' = Verdict(response)
  /\ op' = "submitAnswer.done"
  /\ UNCHANGED <<user, genInFlight, batchInFlight, adjustInFlight, askInFlight,
                 requests, adjustEpoch>>

Directions == {"up", "down"}

\* adjustDifficulty(direction) up to its first await, or to its return when
\* there is no user.  The adjuster is on screen only next to a question.
AdjustDifficulty ==
  /\ AdjusterVisible
  /\ \E direction \in Directions :
       LET s1 == [hook EXCEPT !.adjusting = TRUE, !.errorMessage = Null]
       IN  IF ~user
           THEN /\ hook' = [s1 EXCEPT !.adjusting = FALSE]
                /\ op' = "other"
                /\ UNCHANGED <<adjustInFlight, requests>>
           ELSE /\ hook' = s1
                /\ op' = "other"
                /\ adjustInFlight' = [adjustInFlight EXCEPT ![direction] = @ + 1]
                /\ requests' = requests + 1
  /\ UNCHANGED <<user, genInFlight, batchInFlight, submitInFlight, askInFlight,
                 adjustEpoch, lastSubmit>>

\* What a request to /api/practice/adjust-difficulty can come back with.
AdjustFailures == {"Network Error"}

\* The continuation of adjustDifficulty after its awaits: the request threw,
\* or reading data.level of a response without data threw.
AdjustThrew ==
  /\ \E direction \in Directions, thrown \in AdjustFailures :
       /\ adjustInFlight[direction] > 0
       /\ adjustInFlight' = [adjustInFlight EXCEPT ![direction] = @ - 1]
       /\ hook' = [hook EXCEPT
                     !.errorMessage =
                        ErrorMessage("Failed to adjust difficulty: ",
                                     IF thrown = "noLevel"
                                     THEN "Cannot read properties of undefined"
                                     ELSE ErrorMsgOf(thrown)),
                     !.adjusting = FALSE]
  /\ op' = "other"
  /\ UNCHANGED <<user, genInFlight, batchInFlight, submitInFlight, askInFlight,
                 requests, adjustEpoch, lastSubmit>>

\* The continuation of adjustDifficulty: a response without success.
AdjustRefused ==
  /\ \E direction \in Directions :
       /\ adjustInFlight[direction] > 0
       /\ adjustInFlight' = [adjustInFlight EXCEPT ![direction] = @ - 1]
  /\ hook' = [hook EXCEPT !.adjusting = FALSE]
  /\ op' = "other"
  /\ UNCHANGED <<user, genInFlight, batchInFlight, submitInFlight, askInFlight,
                 requests, adjustEpoch, lastSubmit>>

\* The continuation of adjustDifficulty: the server applied the adjustment.
\* The closure's generatePractice(true) runs with the user the closure saw.
AdjustDone ==
  /\ \E direction \in Directions :
       /\ adjustInFlight[direction] > 0
       /\ adjustInFlight' = [adjustInFlight EXCEPT ![direction] = @ - 1]
       /\ LET s1 == [hook EXCEPT !.difficultyTrend =
                        IF direction = "up" THEN "increasing" ELSE "decreasing"]
              r  == GeneratePractice(s1, Closure(TRUE, hook), TRUE)
          IN  /\ hook' = [r.s EXCEPT !.adjusting = FALSE]
              /\ genInFlight' = genInFlight + 1
              /\ requests' = requests + Sent(r)
  /\ adjustEpoch' = adjustEpoch + 1
  /\ op' = "server"
  /\ UNCHANGED <<user, batchInFlight, submitInFlight, askInFlight, lastSubmit>>

\* FeedbackDisplay's onSetFeedbackQuestion={setFeedbackQuestion}
SetFeedbackQuestion ==
  /\ FeedbackDisplayVisible
  /\ \E text \in Texts :
       /\ text # feedbackQuestion
       /\ hook' = [hook EXCEPT !.feedbackQuestion = text]
  /\ op' = "other"
  /\ UNCHANGED <<user, genInFlight, batchInFlight, submitInFlight, adjustInFlight,
                 askInFlight, requests, adjustEpoch, lastSubmit>>

\* askFeedbackQuestion up to its first await.
AskFeedbackQuestion ==
  /\ FeedbackDisplayVisible
  /\ ~(trim(feedbackQuestion) = <<>> \/ currentPractice = Null \/ feedback = Null)
  /\ hook' = [hook EXCEPT !.askingQuestion = TRUE, !.feedbackAnswer = NullString]
  /\ askInFlight' = askInFlight + 1
  /\ requests' = requests + 1
  /\ op' = "other"
  /\ UNCHANGED <<user, genInFlight, batchInFlight, submitInFlight, adjustInFlight,
                 adjustEpoch, lastSubmit>>

\* The continuation of askFeedbackQuestion after its awaits.
AskDone ==
  /\ askInFlight > 0
  /\ askInFlight' = askInFlight - 1
  /\ \E outcome \in {"answer", "noAnswer", "Network Error"} :
       hook' = [hook EXCEPT
                  !.feedbackAnswer = IF outcome = "answer" THEN "Omdat ..." ELSE @,
                  !.askingQuestion = FALSE]
  /\ op' = "other"
  /\ UNCHANGED <<user, genInFlight, batchInFlight, submitInFlight, adjustInFlight,
                 requests, adjustEpoch, lastSubmit>>

\* ---------------------------------------------------------------- useProfile
\* The effect on [user] of useProfile, and fetchUserProfile up to its first await.
FetchStarted(s) == [s EXCEPT !.loading = TRUE, !.error = NullString]

ProfileLogin ==
  /\ ~user
  /\ user' = TRUE
  /\ profileState' = FetchStarted(profileState)
  /\ fetchInFlight' = fetchInFlight + 1
  /\ profileRequests' = profileRequests + 1
  /\ profileOp' = "fetchUserProfile"
  /\ UNCHANGED <<updateInFlight, practiceVars>>

\* handleLogout: the auth context drops the user; the effect on [user] does nothing.
ProfileLogout ==
  /\ user
  /\ user' = FALSE
  /\ profileOp' = "other"
  /\ UNCHANGED <<profileState, fetchInFlight, updateInFlight, profileRequests,
                 practiceVars>>

\* fetchUserProfile called by the screen that uses the hook.
FetchUserProfile ==
  /\ profileState' = FetchStarted(profileState)
  /\ fetchInFlight' = fetchInFlight + 1
  /\ profileRequests' = profileRequests + 1
  /\ profileOp' = "fetchUserProfile"
  /\ UNCHANGED <<user, updateInFlight, practiceVars>>

\* The continuation of fetchUserProfile after its awaits.
FetchDone ==
  /\ fetchInFlight > 0
  /\ fetchInFlight' = fetchInFlight - 1
  /\ \/ \E data \in ServerProfiles :
          profileState' =
            [profileState EXCEPT
               !.profile = data,
               !.selectedLanguage =
                  IF data.user.motherLanguage # "" THEN data.user.motherLanguage ELSE @,
               !.loading = FALSE]
     \/ profileState' = [profileState EXCEPT !.error = "Failed to load profile",
                                             !.loading = FALSE]
     \/ profileState' =
          [profileState EXCEPT !.error = "Failed to load profile. Please try again.",
                               !.loading = FALSE]
  /\ profileOp' = "fetchUserProfile.done"
  /\ UNCHANGED <<user, updateInFlight, profileRequests, practiceVars>>

\* updateMotherLanguage up to its first await.
UpdateMotherLanguage(language) ==
  /\ profileState' = [profileState EXCEPT !.loading = TRUE]
  /\ updateInFlight' = [updateInFlight EXCEPT ![language] = @ + 1]
  /\ profileRequests' = profileRequests + 1
  /\ profileOp' = "updateMotherLanguage"
  /\ UNCHANGED <<user, fetchInFlight, practiceVars>>

\* setProfile's updater: prev => prev ? {...prev, user: {...prev.user, motherLanguage}} : null
WithMotherLanguage(prev, language) ==
  IF prev = Null THEN Null
  ELSE [prev EXCEPT !.user = [prev.user EXCEPT !.motherLanguage = language]]

\* How a PUT /api/auth/profile ends: a response with a user, one without, a throw.
UpdateOutcomes == {"user", "noUser", "threw"}

\* A completion without the finally: a failed update leaves loading raised.
UpdateFinishedMutant(s, language, outcome) ==
  IF outcome = "user"
  THEN [s EXCEPT !.profile = WithMotherLanguage(@, language),
                 !.selectedLanguage = language,
                 !.loading = FALSE]
  ELSE s

\* What updateMotherLanguage writes once its request has ended.
UpdateFinished(s, language, outcome) ==
  IF outcome = "user"
  THEN [s EXCEPT !.profile = WithMotherLanguage(@, language),
                 !.selectedLanguage = language,
                 !.loading = FALSE]
  ELSE [s EXCEPT !.loading = FALSE]

\* The continuation of updateMotherLanguage(language) after its awaits.
UpdateDone(language, outcome) ==
  /\ updateInFlight[language] > 0
  /\ updateInFlight' = [updateInFlight EXCEPT ![language] = @ - 1]
  /\ profileState' = UpdateFinished(profileState, language, outcome)
  /\ profileOp' = outcome
  /\ UNCHANGED <<user, fetchInFlight, profileRequests, practiceVars>>

\* ---------------------------------------------------------------- specification
\* A behaviour sends at most n foreground requests; the background batch
\* requests come on top, one for each question served from the queue at most.
Budget(n) == requests' <= n

\* The server answers every request, and answers it well.
Healthy == errorMessage' = Null

Next ==
  \/ Login /\ Budget(MaxRequests) /\ UNCHANGED profileVars
  \/ Logout /\ Budget(MaxRequests) /\ UNCHANGED profileVars
  \/ InitialLoad /\ Budget(MaxRequests) /\ UNCHANGED profileVars
  \/ TryAgain /\ Budget(MaxRequests) /\ UNCHANGED profileVars
  \/ HandleNextPractice /\ Budget(MaxRequests) /\ UNCHANGED profileVars
  \/ GenerateDone /\ Budget(MaxRequests) /\ UNCHANGED profileVars
  \/ BatchDone /\ Budget(MaxRequests) /\ UNCHANGED profileVars
  \/ SetUserAnswer /\ Budget(MaxRequests) /\ UNCHANGED profileVars
  \/ SubmitAnswer /\ Budget(MaxRequests) /\ UNCHANGED profileVars
  \/ SubmitThrew /\ Budget(MaxRequests) /\ UNCHANGED profileVars
  \/ SubmitDone /\ Budget(MaxRequests) /\ UNCHANGED profileVars
  \/ AdjustDifficulty /\ Budget(MaxRequests) /\ UNCHANGED profileVars
  \/ AdjustThrew /\ Budget(MaxRequests) /\ UNCHANGED profileVars
  \/ AdjustRefused /\ Budget(MaxRequests) /\ UNCHANGED profileVars
  \/ AdjustDone /\ Budget(MaxRequests) /\ UNCHANGED profileVars

Spec == Init /\ [][Next]_vars

\* The queue at work: the server is healthy, and the user answers and moves on.
NextQueue ==
  \/ Login /\ Budget(MaxQueueRequests) /\ Healthy /\ UNCHANGED profileVars
  \/ Logout /\ Budget(MaxQueueRequests) /\ Healthy /\ UNCHANGED profileVars
  \/ HandleNextPractice /\ Budget(MaxQueueRequests) /\ Healthy /\ UNCHANGED profileVars
  \/ GenerateDone /\ Budget(MaxQueueRequests) /\ Healthy /\ UNCHANGED profileVars
  \/ BatchDone /\ Budget(MaxQueueRequests) /\ Healthy /\ UNCHANGED profileVars
  \/ SetUserAnswer /\ Budget(MaxQueueRequests) /\ Healthy /\ UNCHANGED profileVars
  \/ SubmitAnswer /\ Budget(MaxQueueRequests) /\ Healthy /\ UNCHANGED profileVars
  \/ SubmitDone /\ Budget(MaxQueueRequests) /\ Healthy /\ UNCHANGED profileVars

SpecQueue == Init /\ [][NextQueue]_vars

\* The queue and the difficulty adjuster: the server is healthy and the user
\* stays logged in.
NextAdjust ==
  \/ Login /\ Budget(MaxQueueRequests) /\ Healthy /\ UNCHANGED profileVars
  \/ HandleNextPractice /\ Budget(MaxQueueRequests) /\ Healthy /\ UNCHANGED profileVars
  \/ GenerateDone /\ Budget(MaxQueueRequests) /\ Healthy /\ UNCHANGED profileVars
  \/ BatchDone /\ Budget(MaxQueueRequests) /\ Healthy /\ UNCHANGED profileVars
  \/ SetUserAnswer /\ Budget(MaxQueueRequests) /\ Healthy /\ UNCHANGED profileVars
  \/ SubmitAnswer /\ Budget(MaxQueueRequests) /\ Healthy /\ UNCHANGED profileVars
  \/ SubmitDone /\ Budget(MaxQueueRequests) /\ Healthy /\ UNCHANGED profileVars
  \/ AdjustDifficulty /\ Budget(MaxQueueRequests) /\ Healthy /\ UNCHANGED profileVars
  \/ AdjustDone /\ Budget(MaxQueueRequests) /\ Healthy /\ UNCHANGED profileVars

SpecAdjust == Init /\ [][NextAdjust]_vars

\* The practice screen with the questions the user asks about the feedback.
NextFeedback ==
  \/ Login /\ Budget(MaxFeedbackRequests) /\ UNCHANGED profileVars
  \/ Logout /\ Budget(MaxFeedbackRequests) /\ UNCHANGED profileVars
  \/ InitialLoad /\ Budget(MaxFeedbackRequests) /\ UNCHANGED profileVars
  \/ TryAgain /\ Budget(MaxFeedbackRequests) /\ UNCHANGED profileVars
  \/ HandleNextPractice /\ Budget(MaxFeedbackRequests) /\ UNCHANGED profileVars
  \/ GenerateDone /\ Budget(MaxFeedbackRequests) /\ UNCHANGED profileVars
  \/ BatchDone /\ Budget(MaxFeedbackRequests) /\ UNCHANGED profileVars
  \/ SetUserAnswer /\ Budget(MaxFeedbackRequests) /\ UNCHANGED profileVars
  \/ SubmitAnswer /\ Budget(MaxFeedbackRequests) /\ UNCHANGED profileVars
  \/ SubmitDone /\ Budget(MaxFeedbackRequests) /\ UNCHANGED profileVars
  \/ SetFeedbackQuestion /\ Budget(MaxFeedbackRequests) /\ UNCHANGED profileVars
  \/ AskFeedbackQuestion /\ Budget(MaxFeedbackRequests) /\ UNCHANGED profileVars
  \/ AskDone /\ Budget(MaxFeedbackRequests) /\ UNCHANGED profileVars
  \/ AdjustDifficulty /\ Budget(MaxFeedbackRequests) /\ UNCHANGED profileVars
  \/ AdjustDone /\ Budget(MaxFeedbackRequests) /\ UNCHANGED profileVars

SpecFeedback == Init /\ [][NextFeedback]_vars

\* The profile hook on its own: the practice screen is not mounted.
ProfileBudget == profileRequests' <= MaxProfileRequests

NextProfile ==
  \/ ProfileLogin /\ ProfileBudget
  \/ ProfileLogout /\ ProfileBudget
  \/ FetchUserProfile /\ ProfileBudget
  \/ FetchDone /\ ProfileBudget
  \/ \E language \in Languages : UpdateMotherLanguage(language) /\ ProfileBudget
  \/ \E language \in Languages, outcome \in UpdateOutcomes :
       UpdateDone(language, outcome) /\ ProfileBudget

SpecProfile == Init /\ [][NextProfile]_vars

\* ---------------------------------------------------------------- claims

\* A call of generatePractice with forceNew = false: handleNextPractice's, or
\* the practice component's effect.
GenerateNotForced == HandleNextPractice \/ InitialLoad

\* A step in which generatePractice took its queue branch.
ServedFromQueue == op \in {"queue", "queue.prefetch"}

\* C1: generatePractice(false) with a logged-in user and a non-empty queue
\* makes the queue's first element the current practice, leaves the remaining
\* elements in their order as the queue, sends no foreground request and
\* leaves loading false.
C1_QueueHit ==
  [][ (GenerateNotForced /\ user /\ questionQueue # <<>>)
        => /\ ServedFromQueue'
           /\ currentPractice' = Head(questionQueue)
           /\ questionQueue' = Tail(questionQueue)
           /\ genInFlight' = genInFlight
           /\ ~loading' ]_vars

\* C1 witness: a question was served from a queue that held more than one.
C1_Witness ==
  /\ ServedFromQueue
  /\ currentPractice # Null
  /\ questionQueue # <<>>
  /\ ~loading

\* C2: when generatePractice serves from the queue, it sends a background
\* request if and only if fewer than 2 questions remain and generatingBatch
\* was false; it sends at most one, and nothing else.
C2_Prefetch ==
  [][ (GenerateNotForced /\ user /\ questionQueue # <<>>)
        => /\ (batchInFlight' = batchInFlight + 1)
                <=> (Len(questionQueue') < 2 /\ ~generatingBatch)
           /\ batchInFlight' \in {batchInFlight, batchInFlight + 1}
           /\ requests' = requests ]_vars

\* C2 witness: served from the queue with 2 left and no batch under way, and
\* no request went out.
C2_Witness ==
  /\ op = "queue"
  /\ Len(questionQueue) >= 2
  /\ ~generatingBatch
  /\ batchInFlight = 0

\* C3: at most one background batch request is in flight at any time.
C3_OneBatch == batchInFlight <= 1

\* C3 witness: a question was served from the queue while a batch request was
\* in flight, and no second one was sent.
C3_Witness ==
  /\ op = "queue"
  /\ Len(questionQueue) < 2
  /\ batchInFlight = 1
  /\ generatingBatch

\* A step that put a question on screen: from the queue, or from a response
\* to a foreground request.
NewPractice == ServedFromQueue \/ op = "generatePractice.ok"

\* C4: when currentPractice changes to an item of non-zero difficulty d, the
\* recorded difficulty becomes d; with a recorded difficulty p the trend
\* becomes the comparison of d with p, and without one (the first such item)
\* the trend is, and stays, the initial 'stable'.
C4_Trend ==
  [][ (NewPractice' /\ currentPractice'.difficulty # 0)
        => LET d == currentPractice'.difficulty
               p == previousDifficultyRef
           IN  /\ previousDifficultyRef' = d
               /\ p # NullNumber /\ d > p => difficultyTrend' = "increasing"
               /\ p # NullNumber /\ d < p => difficultyTrend' = "decreasing"
               /\ p # NullNumber /\ d = p => difficultyTrend' = "stable"
               /\ p = NullNumber =>
                    difficultyTrend = "stable" /\ difficultyTrend' = "stable" ]_vars

\* C4 witness: an easier question came from the queue after a harder one, and
\* the trend reads 'decreasing'.
C4_Witness ==
  /\ ServedFromQueue
  /\ currentPractice.difficulty = 1
  /\ previousDifficultyRef = 1
  /\ difficultyTrend = "decreasing"

\* C5 as the claim states it: feedback reads correct only if the most recently
\* completed submit request came back graded correct.
C5_Original ==
  (feedback # Null /\ feedback.isCorrect) => lastSubmit = "correct"

\* C5, amended: feedback is written only by a submit response, and reads
\* correct exactly when that response carried success, data and a truthy
\* evaluation.isCorrect; a response without success, data or evaluation gives
\* isCorrect = false and an empty text; a submit that throws leaves feedback
\* as it was.
C5_ServerGraded ==
  [][ /\ feedback' # feedback => (feedback' = Null \/ op' = "submitAnswer.done")
      /\ op' = "submitAnswer.done" =>
           /\ feedback' # Null
           /\ feedback'.isCorrect <=> lastSubmit' = "correct"
      /\ op' = "submitAnswer.failed" => feedback' = feedback
      /\ \A response \in SubmitResponses :
           (~response.success \/ ~response.data \/ response.evaluation = Null)
             => FeedbackOf(response) = [isCorrect |-> FALSE, feedback |-> ""] ]_vars

\* C5 witness: a response graded correct has just been shown.
C5_Witness ==
  /\ op = "submitAnswer.done"
  /\ feedback # Null /\ feedback.isCorrect
  /\ lastSubmit = "correct"

\* A string with nothing but whitespace in it, the empty one included.
Blank(text) == \A i \in 1..Len(text) : text[i] \in Whitespace

C7_GenerateFailure ==
  [][ /\ op' = "server" =>
           currentPractice' = currentPractice /\ questionQueue' = questionQueue
      /\ op' = "generatePractice.failed" =>
           /\ errorMessage' # Null
           /\ errorMessage'.prefix = "Failed to generate practice: "
           /\ currentPractice' = currentPractice
           /\ questionQueue' = questionQueue
           /\ ~loading' ]_vars

\* C7 witness: a generation failed with a question on screen and one queued.
C7_Witness ==
  /\ op = "generatePractice.failed"
  /\ currentPractice # Null
  /\ questionQueue # <<>>
  /\ errorMessage.errorMsg = "Invalid practice data received"

\* The cells a background batch generation must not touch.
UserVisible(s) ==
  <<s.questionQueue, s.currentPractice, s.errorMessage, s.loading, s.feedback>>

\* C8: neither the start of a background batch request nor its completion,
\* whatever its outcome, changes the queue, the current practice, the error
\* message, loading or feedback; generatingBatch is false once it completes.
C8_BatchInvisible ==
  [][ /\ UserVisible(GeneratePracticeBatch(hook, Closure(user, hook)).s)
           = UserVisible(hook)
      /\ op' = "generatePracticeBatch.done"
           => UserVisible(hook') = UserVisible(hook) /\ ~generatingBatch' ]_vars

\* C8 witness: a batch request completed while a foreground request had the
\* spinner up.
C8_Witness ==
  /\ op = "generatePracticeBatch.done"
  /\ loading
  /\ ~generatingBatch
  /\ currentPractice # Null

C10_Original ==
  [][ (NewPractice' /\ adjustEpoch' > 0)
        => currentPractice'.epoch = adjustEpoch' ]_vars

\* C11: when an updateMotherLanguage(language) call completes, loading is
\* false; if its response contained a user, selectedLanguage is language, a
\* null profile stays null and a non-null profile has user.motherLanguage =
\* language with every other field as it was; if the request threw or the
\* response had no user, profile and selectedLanguage are as they were.
C11_UpdateMotherLanguage ==
  [][\A language \in Languages :
       /\ UpdateDone(language, "user") =>
            /\ selectedLanguage' = language
            /\ profile = Null => profile' = Null
            /\ profile # Null =>
                 /\ profile' # Null
                 /\ profile'.user.motherLanguage = language
                 /\ profile'.user.name = profile.user.name
                 /\ profile'.progress = profile.progress
                 /\ DOMAIN profile' = DOMAIN profile
                 /\ DOMAIN profile'.user = DOMAIN profile.user
            /\ profileState'.loading = FALSE
            /\ error' = error
       /\ \A outcome \in {"noUser", "threw"} :
            UpdateDone(language, outcome) =>
              /\ profile' = profile
              /\ selectedLanguage' = selectedLanguage
              /\ profileState'.loading = FALSE]_vars

\* An update has just completed with a user in its response, on a loaded
\* profile: the profile and the selection carry the language, the progress is
\* still counted and loading is over.
C11_Witness ==
  /\ profileOp = "user"
  /\ profile # Null
  /\ profile.user.motherLanguage = "Dutch"
  /\ selectedLanguage = "Dutch"
  /\ profile.progress.completedPractices = 1
  /\ ~profileState.loading

\* The feedback-related cells of a hook state, and their cleared values.
FeedbackState(s) ==
  <<s.feedback, s.userAnswer, s.feedbackQuestion, s.feedbackAnswer, s.askingQuestion>>

Cleared(s) == FeedbackState(s) = <<Null, <<>>, <<>>, NullString, FALSE>>

\* generatePractice has just run and found a user, whoever called it.
GenerateRanWithUser == op' \in {"server", "queue", "queue.prefetch"}

\* No request of any kind leaves the hook in this step.
NothingSent ==
  /\ requests' = requests
  /\ genInFlight' = genInFlight
  /\ batchInFlight' = batchInFlight
  /\ submitInFlight' = submitInFlight
  /\ askInFlight' = askInFlight
  /\ adjustInFlight' = adjustInFlight

\* C12: every run of generatePractice that finds a user (queue path or server
\* path, forced or not) and every call of handleNextPractice leaves feedback =
\* null, userAnswer = '', feedbackQuestion = '', feedbackAnswer = null and
\* askingQuestion = false; a run of generatePractice that finds no user sends
\* no request and, by itself, leaves these five cells as they were.
C12_FeedbackCleared ==
  [][ /\ GenerateRanWithUser => Cleared(hook')
      /\ HandleNextPractice => Cleared(hook')
      /\ op' = "noUser" =>
           /\ NothingSent
           /\ ~HandleNextPractice => FeedbackState(hook') = FeedbackState(hook) ]_vars

\* generatePractice has just run with a user while a question about the
\* feedback was still awaiting its answer: askingQuestion is false again
\* although the request that raised it has not completed.
C12_Witness ==
  /\ op \in {"server", "queue", "queue.prefetch"}
  /\ askInFlight > 0
  /\ Cleared(hook)
====
